---- MODULE Spec2Model ----
(***************************************************************************)
(* CurveTool (src/src/components/image-editor/CurveTool.tsx): a React      *)
(* component that keeps committed curves, the curve being drawn, a         *)
(* selection index, a drag index, the last pointer position and a drawing  *)
(* flag in useState cells, paints them in an effect, and subscribes four   *)
(* DOM listeners in a second effect.                                       *)
(*                                                                         *)
(* A handler is one atomic step: it reads the values its closure captured  *)
(* at the render that subscribed it (the record `handlers`), queues its    *)
(* state updates (functional updates apply to the live state), and the     *)
(* updates of one handler are committed together.  The step Render is the  *)
(* re-render that follows: it runs the paint effect `draw` and the         *)
(* listener effect.  The next input event is dispatched after that         *)
(* re-render.                                                              *)
(*                                                                         *)
(* Spec        the component as wired: the listener effect subscribes the  *)
(*             handlers only while `drawing` is true.                      *)
(* HandlerSpec the four handlers driven in every mode (the listeners kept  *)
(*             attached whatever `drawing` is): the interaction state      *)
(*             machine the handlers themselves implement.                  *)
(***************************************************************************)
EXTENDS Integers, Sequences, FiniteSets, TLC

VARIABLES
    curves,              \* useState<Point[][]>([])            line 28
    currentCurve,        \* useState<Point[]>([])              line 29
    selectedCurveIndex,  \* useState<number | null>(null)      line 30
    dragging,            \* useState<number | null>(null)      line 31
    mousePos,            \* useState<Point | null>(null)       line 32: <<>> is null, <<p>> a point
    drawing,             \* useState<boolean>(active)          line 33
    active,              \* the prop `active`                  line 20
    handlers,            \* the subscribed listeners and the values their closures captured
    dirty,               \* a state update is queued and the re-render has not run yet
    canvas,              \* what is painted on the surface
    ev,                  \* the input event (or change of props) that came last
    calls,               \* the calls the last handler made on the two callback props
    toolCalls,           \* number of setActiveTool(null) calls so far
    finishCalls          \* number of onFinishCurve calls so far

vars == <<curves, currentCurve, selectedCurveIndex, dragging, mousePos, drawing,
          active, handlers, dirty, canvas, ev, calls, toolCalls, finishCalls>>

\* ---------------------------------------------------------------- bounds
\* Longest Active Curve the model lets a pointer-down build.
MaxLen == 2
\* Most points the committed curves hold in all once the commit key has stored
\* another curve.
MaxStored == 4

\* ------------------------------------------------------------- constants
\* `null` of selectedCurveIndex and dragging (indices are 0-based as in the source).
Null == -1
\* findIndex's "not found".
NoHit == -1
\* isNear's default distance, used by the point-level test.
PointHitDistance == 10
\* The distance the curve-level test passes to isNear.
CurveHitDistance == 8

\* Surface-local pointer positions the events are drawn from: on one line,
\* 8 px apart (inside both thresholds, on the 8 px boundary), 10 px apart
\* (inside the point-level threshold only, on its boundary) and 18 px apart.
Points == { [x |-> 0, y |-> 0], [x |-> 8, y |-> 0], [x |-> 18, y |-> 0] }

\* canvas.getBoundingClientRect(): where the surface sits on the screen.
rect == [left |-> 100, top |-> 50]

\* The mouse events: global positions that land on the points above.
MouseEvents == { [clientX |-> p.x + rect.left, clientY |-> p.y + rect.top] : p \in Points }

\* The key events.
Keys == { "Enter", "Escape" }

\* ---------------------------------------------------------------- helpers
\* Element i of a JavaScript array (0-based).
At(s, i) == s[i + 1]

getMousePos(e) == [x |-> e.clientX - rect.left, y |-> e.clientY - rect.top]

\* Variant of isNear that excludes the boundary distance.
isNear_strict(pt1, pt2, distance) ==
    LET dx == pt1.x - pt2.x
        dy == pt1.y - pt2.y
    IN  dx * dx + dy * dy < distance * distance

isNear(pt1, pt2, distance) ==
    LET dx == pt1.x - pt2.x
        dy == pt1.y - pt2.y
    IN  dx * dx + dy * dy <= distance * distance

\* for (let i = 0; i < curve.length; i++) if (isNear(pos, curve[i])) ...: the
\* first index i >= from whose point is near, NoHit when the loop ends.
RECURSIVE pointHitFrom(_, _, _)
pointHitFrom(curve, pos, i) ==
    IF i >= Len(curve) THEN NoHit
    ELSE IF isNear(pos, At(curve, i), PointHitDistance) THEN i
    ELSE pointHitFrom(curve, pos, i + 1)

pointHit(curve, pos) == pointHitFrom(curve, pos, 0)

\* curve.some((pt) => isNear(pt, pos, 8)), scanning from index i.
RECURSIVE someNearFrom(_, _, _)
someNearFrom(curve, pos, i) ==
    IF i >= Len(curve) THEN FALSE
    ELSE IF isNear(At(curve, i), pos, CurveHitDistance) THEN TRUE
    ELSE someNearFrom(curve, pos, i + 1)

\* curves.findIndex(...), scanning from index i.
RECURSIVE findIndexFrom(_, _, _)
findIndexFrom(cs, pos, i) ==
    IF i >= Len(cs) THEN NoHit
    ELSE IF someNearFrom(At(cs, i), pos, 0) THEN i
    ELSE findIndexFrom(cs, pos, i + 1)

\* Variant of hitIndex that prefers the curve painted on top (the last match).
findIndex_last(cs, pos) ==
    LET hits == { i \in 0..(Len(cs) - 1) : someNearFrom(At(cs, i), pos, 0) }
    IN  IF hits = {} THEN NoHit ELSE CHOOSE i \in hits : \A j \in hits : j <= i

hitIndex(cs, pos) == findIndexFrom(cs, pos, 0)

\* A hole of a JavaScript array: what the elements between the old end and an
\* index assigned past it read as.
Hole == [x |-> "undefined", y |-> "undefined"]

\* const updatedCurve = [...curve]; updatedCurve[k] = pos: index k is replaced
\* when it exists; assigned past the end, the array grows to k + 1 elements.
assignAt(curve, k, pos) ==
    [i \in 1..(IF k + 1 > Len(curve) THEN k + 1 ELSE Len(curve)) |->
        IF i = k + 1 THEN pos
        ELSE IF i <= Len(curve) THEN curve[i]
        ELSE Hole]

\* The updater of setCurves in handleMouseMove.
replacePoint(prev, sel, k, pos) ==
    [prev EXCEPT ![sel + 1] = assignAt(prev[sel + 1], k, pos)]

\* Number of points of all the curves of a store.
RECURSIVE storedPoints(_)
storedPoints(cs) == IF cs = <<>> THEN 0 ELSE Len(Head(cs)) + storedPoints(Tail(cs))

\* Keep the curves that get a stroke: curve.length < 2 returns early.
RECURSIVE stroked(_)
stroked(cs) ==
    IF cs = <<>> THEN <<>>
    ELSE IF Len(Head(cs)) < 2 THEN stroked(Tail(cs))
    ELSE <<Head(cs)>> \o stroked(Tail(cs))

\* draw(): the whole surface repainted from the state.  strokes: the point
\* sequences stroked, in paint order; markers: the index whose points get
\* markers; preview: the rubber-band segment.
draw(cs, cur, sel, pos, drw) ==
    LET allCurves == IF drw /\ Len(cur) > 1 THEN Append(cs, cur) ELSE cs
    IN  [ strokes |-> stroked(allCurves),
          markers |-> IF sel # Null /\ sel < Len(allCurves) /\ Len(At(allCurves, sel)) >= 2
                      THEN sel ELSE Null,
          preview |-> IF drw /\ Len(cur) > 0 /\ pos # <<>>
                      THEN <<cur[Len(cur)], pos[1]>> ELSE <<>> ]

\* The redraw inside handleKeyDown.
commitRedraw(cs, cur) ==
    LET first == Append(cs, cur)
        allCurves == IF Len(cur) > 1 THEN Append(first, cur) ELSE first
    IN  [ strokes |-> stroked(allCurves), markers |-> Null, preview |-> <<>> ]

\* What a render captures for the handlers it defines.
closure(sub) ==
    [ subscribed |-> sub,
      drawing |-> drawing,
      currentCurve |-> currentCurve,
      curves |-> curves,
      dragging |-> dragging,
      selectedCurveIndex |-> selectedCurveIndex ]

NoEvent == [type |-> "none", pos |-> <<>>, key |-> "", handled |-> FALSE]

\* ------------------------------------------------------------------- Init
\* The component after mounting: state cells at their initial values, both
\* effects run once.
Init ==
    /\ active \in BOOLEAN
    /\ curves = <<>>
    /\ currentCurve = <<>>
    /\ selectedCurveIndex = Null
    /\ dragging = Null
    /\ mousePos = <<>>
    /\ drawing = active
    /\ handlers = [ subscribed |-> active, drawing |-> active, currentCurve |-> <<>>,
                    curves |-> <<>>, dragging |-> Null, selectedCurveIndex |-> Null ]
    /\ dirty = FALSE
    /\ canvas = draw(<<>>, <<>>, Null, <<>>, active)
    /\ ev = NoEvent
    /\ calls = <<>>
    /\ toolCalls = 0
    /\ finishCalls = 0

\* An event nobody listens to: nothing but the record of the event changes.
unhandled(e) ==
    /\ ~handlers.subscribed
    /\ ev' = e
    /\ calls' = <<>>
    /\ UNCHANGED <<curves, currentCurve, selectedCurveIndex, dragging, mousePos, drawing,
                   active, handlers, dirty, canvas, toolCalls, finishCalls>>

\* ------------------------------------------------------------ mousedown
\* Variant of appended that puts the new point first.
appended_first(prev, pos) == <<pos>> \o prev

\* The updater of setCurrentCurve while drawing: (prev) => [...prev, pos]
appended(prev, pos) == Append(prev, pos)

handleMouseDown(e) ==
    LET pos == getMousePos(e)
        sel == handlers.selectedCurveIndex
        k   == IF sel # Null THEN pointHit(At(handlers.curves, sel), pos) ELSE NoHit
        hit == hitIndex(handlers.curves, pos)
    IN
    /\ ev' = [type |-> "mousedown", pos |-> <<pos>>, key |-> "", handled |-> TRUE]
    /\ calls' = <<>>
    /\ IF handlers.drawing THEN
          \* setCurrentCurve((prev) => [...prev, pos]); return
          /\ Len(currentCurve) < MaxLen
          /\ currentCurve' = appended(currentCurve, pos)
          /\ dirty' = TRUE
          /\ UNCHANGED <<curves, selectedCurveIndex, dragging, mousePos, drawing>>
       ELSE IF k # NoHit THEN
          \* setDragging(i); return
          /\ dragging' = k
          /\ dirty' = (dirty \/ dragging # k)
          /\ UNCHANGED <<curves, currentCurve, selectedCurveIndex, mousePos, drawing>>
       ELSE IF hit # NoHit THEN
          \* setSelectedCurveIndex(hitIndex); return
          /\ selectedCurveIndex' = hit
          /\ dirty' = (dirty \/ selectedCurveIndex # hit)
          /\ UNCHANGED <<curves, currentCurve, dragging, mousePos, drawing>>
       ELSE
          \* setCurrentCurve([pos]); setDrawing(true)
          /\ currentCurve' = <<pos>>
          /\ drawing' = TRUE
          /\ dirty' = TRUE
          /\ UNCHANGED <<curves, selectedCurveIndex, dragging, mousePos>>
    /\ UNCHANGED <<active, handlers, canvas, toolCalls, finishCalls>>

\* ------------------------------------------------------------ mousemove
handleMouseMove(e) ==
    LET pos == getMousePos(e)
        sel == handlers.selectedCurveIndex
        k   == handlers.dragging
    IN
    /\ ev' = [type |-> "mousemove", pos |-> <<pos>>, key |-> "", handled |-> TRUE]
    /\ calls' = <<>>
    /\ mousePos' = <<pos>>
    /\ curves' = IF k # Null /\ sel # Null THEN replacePoint(curves, sel, k, pos) ELSE curves
    /\ dirty' = TRUE
    /\ UNCHANGED <<currentCurve, selectedCurveIndex, dragging, drawing,
                   active, handlers, canvas, toolCalls, finishCalls>>

\* -------------------------------------------------------------- mouseup
\* Variant of handleMouseUp that also ends the stroke, as a freehand tool would.
handleMouseUp_endsDrawing ==
    /\ ev' = [type |-> "mouseup", pos |-> <<>>, key |-> "", handled |-> TRUE]
    /\ calls' = <<>>
    /\ dragging' = Null
    /\ mousePos' = <<>>
    /\ drawing' = FALSE
    /\ dirty' = (dirty \/ dragging # Null \/ mousePos # <<>> \/ drawing)
    /\ UNCHANGED <<curves, currentCurve, selectedCurveIndex,
                   active, handlers, canvas, toolCalls, finishCalls>>

\* A variant of the pointer-up handler that also drops the selection.
handleMouseUp_deselects ==
    /\ dragging' = Null
    /\ mousePos' = <<>>
    /\ selectedCurveIndex' = Null
    /\ dirty' = TRUE
    /\ ev' = [type |-> "mouseup", pos |-> <<>>, key |-> "", handled |-> TRUE]
    /\ calls' = <<>>
    /\ UNCHANGED <<curves, currentCurve, drawing, active, handlers, canvas,
                   toolCalls, finishCalls>>

handleMouseUp ==
    /\ ev' = [type |-> "mouseup", pos |-> <<>>, key |-> "", handled |-> TRUE]
    /\ calls' = <<>>
    /\ dragging' = Null
    /\ mousePos' = <<>>
    /\ dirty' = (dirty \/ dragging # Null \/ mousePos # <<>>)
    /\ UNCHANGED <<curves, currentCurve, selectedCurveIndex, drawing,
                   active, handlers, canvas, toolCalls, finishCalls>>

\* -------------------------------------------------------------- keydown
\* Variant of canCommit that accepts a curve of one point.
canCommit_onePoint(key) ==
    key = "Enter" /\ handlers.drawing /\ Len(handlers.currentCurve) > 0

\* e.key === "Enter" && drawing && currentCurve.length > 1
canCommit(key) ==
    key = "Enter" /\ handlers.drawing /\ Len(handlers.currentCurve) > 1

\* Variant of committed that stores the points in reverse order.
committed_reversed(prev, cur) ==
    Append(prev, [i \in 1..Len(cur) |-> cur[Len(cur) + 1 - i]])

\* The updater of setCurves in handleKeyDown: (prev) => [...prev, currentCurve]
committed(prev, cur) == Append(prev, cur)

\* setActiveTool(null)
toolSinkCall == [fn |-> "setActiveTool", arg |-> <<>>]

\* Variant of finishCall that passes the Active Curve as it is after the reset.
finishCall_cleared(cur) == [fn |-> "onFinishCurve", arg |-> <<>>]

\* if (onFinishCurve) onFinishCurve(currentCurve): the parent passes the callback.
finishCall(cur) == [fn |-> "onFinishCurve", arg |-> cur]

handleKeyDown(key) ==
    /\ ev' = [type |-> "keydown", pos |-> <<>>, key |-> key, handled |-> TRUE]
    /\ IF canCommit(key) THEN
          /\ storedPoints(curves) + Len(handlers.currentCurve) <= MaxStored
          /\ curves' = committed(curves, handlers.currentCurve)
          /\ currentCurve' = <<>>
          /\ mousePos' = <<>>
          /\ drawing' = FALSE
          /\ selectedCurveIndex' = Null
          /\ canvas' = commitRedraw(handlers.curves, handlers.currentCurve)
          /\ calls' = <<toolSinkCall, finishCall(handlers.currentCurve)>>
          /\ toolCalls' = toolCalls + 1
          /\ finishCalls' = finishCalls + 1
          /\ dirty' = TRUE
          /\ UNCHANGED dragging
       ELSE
          /\ calls' = <<>>
          /\ UNCHANGED <<curves, currentCurve, selectedCurveIndex, dragging, mousePos,
                         drawing, canvas, toolCalls, finishCalls, dirty>>
    /\ UNCHANGED <<active, handlers>>

\* -------------------------------------------------- re-render and effects
\* useEffect(draw, [...]) and the listener effect, after the state updates of
\* one handler are committed.  sub: whether the listener effect subscribes.
effects(sub) ==
    /\ dirty
    /\ dirty' = FALSE
    /\ canvas' = draw(curves, currentCurve, selectedCurveIndex, mousePos, drawing)
    /\ handlers' = closure(sub)
    /\ UNCHANGED <<curves, currentCurve, selectedCurveIndex, dragging, mousePos, drawing,
                   active, ev, calls, toolCalls, finishCalls>>

\* Variant of subscribes without the early return.
subscribes_always == TRUE

\* if (!drawing) return; ... addEventListener(...)
subscribes == drawing

Render == effects(subscribes)

\* The parent changes the prop `active`: the component re-renders, no state
\* cell and no effect dependency changes.
SetActive ==
    /\ ~dirty
    /\ active' = ~active
    /\ ev' = [type |-> "props", pos |-> <<>>, key |-> "", handled |-> FALSE]
    /\ calls' = <<>>
    /\ UNCHANGED <<curves, currentCurve, selectedCurveIndex, dragging, mousePos, drawing,
                   handlers, dirty, canvas, toolCalls, finishCalls>>

\* ------------------------------------------------------- events dispatched
\* An event reaches the listener subscribed for it, if there is one.
dispatchMouseDown(e) ==
    IF handlers.subscribed THEN handleMouseDown(e)
    ELSE unhandled([type |-> "mousedown", pos |-> <<getMousePos(e)>>, key |-> "",
                    handled |-> FALSE])

dispatchMouseMove(e) ==
    IF handlers.subscribed THEN handleMouseMove(e)
    ELSE unhandled([type |-> "mousemove", pos |-> <<getMousePos(e)>>, key |-> "",
                    handled |-> FALSE])

dispatchMouseUp ==
    IF handlers.subscribed THEN handleMouseUp
    ELSE unhandled([type |-> "mouseup", pos |-> <<>>, key |-> "", handled |-> FALSE])

dispatchKeyDown(key) ==
    IF handlers.subscribed THEN handleKeyDown(key)
    ELSE unhandled([type |-> "keydown", pos |-> <<>>, key |-> key, handled |-> FALSE])

\* The next event comes after the re-render the last one caused.
MouseDown(e) == ~dirty /\ dispatchMouseDown(e)

MouseMove(e) == ~dirty /\ dispatchMouseMove(e)

MouseUp == ~dirty /\ dispatchMouseUp

KeyDown(key) == ~dirty /\ dispatchKeyDown(key)

Next ==
    \/ \E e \in MouseEvents : MouseDown(e)
    \/ \E e \in MouseEvents : MouseMove(e)
    \/ MouseUp
    \/ \E key \in Keys : KeyDown(key)
    \/ Render
    \/ SetActive

Spec == Init /\ [][Next]_vars

\* ------------------------------------------- the handlers in every mode
\* The listeners attached from the start and kept attached by every render.
HandlerInit ==
    /\ active \in BOOLEAN
    /\ curves = <<>>
    /\ currentCurve = <<>>
    /\ selectedCurveIndex = Null
    /\ dragging = Null
    /\ mousePos = <<>>
    /\ drawing = active
    /\ handlers = [ subscribed |-> TRUE, drawing |-> active, currentCurve |-> <<>>,
                    curves |-> <<>>, dragging |-> Null, selectedCurveIndex |-> Null ]
    /\ dirty = FALSE
    /\ canvas = draw(<<>>, <<>>, Null, <<>>, active)
    /\ ev = NoEvent
    /\ calls = <<>>
    /\ toolCalls = 0
    /\ finishCalls = 0

RenderAttached == effects(TRUE)

HandlerNext ==
    \/ \E e \in MouseEvents : MouseDown(e)
    \/ \E e \in MouseEvents : MouseMove(e)
    \/ MouseUp
    \/ \E key \in Keys : KeyDown(key)
    \/ RenderAttached

HandlerSpec == HandlerInit /\ [][HandlerNext]_vars

\* ------------------------------ events that do not wait for the re-render
\* The component as wired, with the next event free to arrive while the
\* re-render of the last one is still pending: the listeners then are the
\* ones of the last render, with the values that render captured.
EarlyNext ==
    \/ \E e \in MouseEvents : dispatchMouseDown(e)
    \/ \E e \in MouseEvents : dispatchMouseMove(e)
    \/ dispatchMouseUp
    \/ \E key \in Keys : dispatchKeyDown(key)
    \/ Render

EarlySpec == Init /\ [][EarlyNext]_vars

\* =================================================================
\* Properties
\* =================================================================
\* Vocabulary of the properties.  An event is dispatched in a state with no
\* re-render pending, and ev' then describes it.
EventStep(type) == ~dirty /\ ev'.type = type

HandledStep(type) == EventStep(type) /\ ev'.handled

\* The commit key handled while Mode = Drawing with at least 2 points.
CommitKeyHandled ==
    HandledStep("keydown") /\ ev'.key = "Enter" /\ drawing /\ Len(currentCurve) >= 2

\* Squared distance of two points.
dist2(p, q) == (p.x - q.x) * (p.x - q.x) + (p.y - q.y) * (p.y - q.y)

\* Indices (0-based) of the committed curves with a point within 8 px of pos.
nearCurves(pos) ==
    { i \in 0..(Len(curves) - 1) :
        \E j \in 1..Len(curves[i + 1]) : dist2(curves[i + 1][j], pos) <= 64 }

lowest(S) == CHOOSE i \in S : \A j \in S : i <= j

\* Mode = Dragging(c, k): not Drawing, curve c selected, its point k dragged.
DraggingMode(c, k) ==
    /\ ~drawing
    /\ selectedCurveIndex = c
    /\ dragging = k
    /\ c \in 0..(Len(curves) - 1)
    /\ k \in 0..(Len(curves[c + 1]) - 1)

\* The state a successful commit must leave, given the state before it.
CommitPost ==
    /\ Len(curves') = Len(curves) + 1
    /\ SubSeq(curves', 1, Len(curves)) = curves
    /\ curves'[Len(curves')] = currentCurve
    /\ currentCurve' = <<>>
    /\ drawing' = FALSE
    /\ selectedCurveIndex' = Null

\* What is painted after the step: strokes of curves of the store cs only, no
\* rubber-band preview, no markers.
PaintsOnly(cs) ==
    /\ \A i \in 1..Len(canvas'.strokes) :
          \E j \in 1..Len(cs) : canvas'.strokes[i] = cs[j]
    /\ canvas'.preview = <<>>
    /\ canvas'.markers = Null

\* C1 (commit atomicity): a commit key handled while Drawing with at least 2
\* points leaves, in that one step, one more committed curve, the new curve
\* last and equal to the Active Curve before the step, the Active Curve
\* empty, Mode not Drawing and nothing selected; the store never grows in a
\* step that does not also do all of that; and what is painted from that step
\* on shows committed curves of the new store only, with neither an Active
\* Curve preview nor markers, so no redraw sees the store grown with the rest
\* still to come.
C1_CommitAtomic ==
    [][ /\ CommitKeyHandled => CommitPost /\ PaintsOnly(curves')
        /\ Len(curves') # Len(curves) => CommitKeyHandled /\ CommitPost
        /\ (dirty /\ ~dirty' /\ calls # <<>>) => PaintsOnly(curves) ]_vars

\* C1 witness: just after a commit that found a curve selected: the second
\* committed curve is the Active Curve the handler saw, the selection the
\* handler saw is gone.
C1_Witness ==
    /\ dirty /\ ev.type = "keydown" /\ ev.key = "Enter" /\ ev.handled
    /\ Len(curves) = 2
    /\ curves[2] = handlers.currentCurve
    /\ curves[2][1] # curves[2][2]
    /\ handlers.selectedCurveIndex # Null
    /\ selectedCurveIndex = Null
    /\ currentCurve = <<>> /\ ~drawing

\* C2 (commit refusal): a commit key handled with 0 or 1 points in the Active
\* Curve, or while Mode is not Drawing, changes neither the committed curves,
\* the Active Curve, Mode, the selection nor the drag, and calls neither the
\* finish callback nor the tool-selection sink.
C2_CommitRefused ==
    [][ (HandledStep("keydown") /\ ev'.key = "Enter"
            /\ (Len(currentCurve) <= 1 \/ ~drawing))
        => /\ UNCHANGED <<curves, currentCurve, drawing, selectedCurveIndex, dragging>>
           /\ UNCHANGED <<toolCalls, finishCalls>>
           /\ calls' = <<>> ]_vars

\* C2 witness: Scenario D, the commit key just handled while Drawing with one
\* point placed.
C2_Witness ==
    /\ ev.type = "keydown" /\ ev.key = "Enter" /\ ev.handled
    /\ drawing /\ Len(currentCurve) = 1 /\ calls = <<>>

\* C3: the finish callback and the tool-selection sink are each called once
\* by every successful commit and by nothing else, so each has been called
\* as often as there are committed curves; the sink gets "no active tool"
\* and the callback gets the point sequence that commit appended.
C3_CallbacksOncePerCommit ==
    /\ [](toolCalls = Len(curves) /\ finishCalls = Len(curves))
    /\ [][ /\ CommitKeyHandled =>
                 /\ toolCalls' = toolCalls + 1
                 /\ finishCalls' = finishCalls + 1
                 /\ calls' = << [fn |-> "setActiveTool", arg |-> <<>>],
                                [fn |-> "onFinishCurve", arg |-> curves'[Len(curves')]] >>
           /\ (toolCalls' # toolCalls \/ finishCalls' # finishCalls
                  \/ (calls' # calls /\ calls' # <<>>)) => CommitKeyHandled ]_vars

\* C3 witness: the second successful commit has just called both.
C3_Witness ==
    /\ toolCalls = 2 /\ finishCalls = 2 /\ Len(curves) = 2
    /\ Len(calls) = 2 /\ calls[2].arg = curves[2]

C6_ActiveOnlyWhileDrawing == ~drawing => currentCurve = <<>>

\* C6 witness: a pointer-up just handled in Idle after a curve was drawn and
\* committed.
C6_Witness ==
    /\ ~drawing /\ currentCurve = <<>> /\ Len(curves) >= 1
    /\ ev.type = "mouseup" /\ ev.handled

\* C7 (curve-level hit test): for the committed curves of any state and any
\* pointer position, the test returns the lowest index of a curve with a
\* point at squared distance at most 64, and "no hit" when there is none.
C7_CurveHitLowest ==
    \A p \in Points :
        hitIndex(curves, p) = IF nearCurves(p) = {} THEN NoHit ELSE lowest(nearCurves(p))

\* C7 witness: a pointer-down in Idle within 8 px of both committed curves,
\* on the 8 px boundary of the first, has selected the first.
C7_Witness ==
    /\ ev.type = "mousedown" /\ ev.handled /\ dirty
    /\ ~drawing /\ Len(curves) = 2
    /\ nearCurves(ev.pos[1]) = {0, 1}
    /\ \A j \in 1..Len(curves[1]) : dist2(curves[1][j], ev.pos[1]) >= 64
    /\ handlers.selectedCurveIndex = Null
    /\ selectedCurveIndex = 0

\* C8: a pointer-down in Idle with nothing selected, within 8 px of a point
\* of a committed curve, selects a curve it is within 8 px of.
C8_SelectionReachable ==
    [][ (EventStep("mousedown") /\ ~drawing /\ selectedCurveIndex = Null
            /\ Len(curves) >= 1 /\ nearCurves(ev'.pos[1]) # {})
        => selectedCurveIndex' \in nearCurves(ev'.pos[1]) ]_vars

\* C9: Mode leaves Drawing only in a successful commit; every pointer event
\* and every other key press handled while Drawing leaves it Drawing.
C9_DrawingLeftOnlyByCommit ==
    [][ drawing /\ ~drawing' => CommitKeyHandled ]_vars

\* C9 witness: still Drawing after a pointer-up handled with points placed
\* and a pointer position tracked.
C9_Witness ==
    /\ drawing /\ Len(currentCurve) = MaxLen
    /\ ev.type = "mouseup" /\ ev.handled /\ dirty

\* C10 (transition 1): a pointer-down handled while Drawing appends the
\* pointer position to the Active Curve and changes neither Mode, the
\* committed curves, the selection nor the drag.
C10_PointerDownAppends ==
    [][ (HandledStep("mousedown") /\ drawing)
        => /\ currentCurve' = Append(currentCurve, ev'.pos[1])
           /\ UNCHANGED <<drawing, curves, selectedCurveIndex, dragging>> ]_vars

\* C10 witness: Drawing with a curve selected and a drag index present; the
\* pointer-down just appended a second, different point that lies within
\* 8 px of the selected committed curve.
C10_Witness ==
    /\ ev.type = "mousedown" /\ ev.handled /\ dirty
    /\ drawing /\ handlers.drawing
    /\ Len(currentCurve) = 2 /\ currentCurve[1] # currentCurve[2]
    /\ currentCurve[2] = ev.pos[1]
    /\ selectedCurveIndex # Null /\ dragging # Null
    /\ selectedCurveIndex \in nearCurves(ev.pos[1])

\* Indices (0-based) of the points of the selected curve within 10 px of pos;
\* empty when no curve is selected.
nearPoints(pos) ==
    IF selectedCurveIndex = Null THEN {}
    ELSE { k \in 0..(Len(curves[selectedCurveIndex + 1]) - 1) :
             dist2(curves[selectedCurveIndex + 1][k + 1], pos) <= 100 }

\* C11 (Entering Dragging): the drag index becomes present only through a
\* pointer-down handled while Mode is not Drawing, a curve is selected and a
\* point of the selected curve lies within 10 px of the pointer (squared
\* distance at most 100); such a pointer-down sets the drag index to the
\* lowest index of such a point, keeps the selection and starts no Active
\* Curve, also when the pointer is within 8 px of another committed curve.
C11_EnteringDragging ==
    [][ /\ (dragging' # dragging /\ dragging' # Null)
            => /\ HandledStep("mousedown")
               /\ ~drawing
               /\ nearPoints(ev'.pos[1]) # {}
        /\ (HandledStep("mousedown") /\ ~drawing /\ nearPoints(ev'.pos[1]) # {})
            => /\ dragging' = lowest(nearPoints(ev'.pos[1]))
               /\ UNCHANGED <<selectedCurveIndex, currentCurve, drawing, curves>>
      ]_vars

\* A pointer-down made point 1 of the selected curve 1 the dragged point (its
\* point 0 is out of reach) although the pointer is within 8 px of curve 0.
C11_Witness ==
    /\ ev.type = "mousedown" /\ ev.handled
    /\ ~drawing
    /\ selectedCurveIndex = 1
    /\ handlers.dragging = Null
    /\ dragging = 1
    /\ nearPoints(ev.pos[1]) = {1}
    /\ 0 \in nearCurves(ev.pos[1])
    /\ currentCurve = <<>>

\* The pointer-down handled while Mode is not Drawing that misses the
\* point-level test (or finds nothing selected) and hits a committed curve.
CurveLevelHit ==
    /\ HandledStep("mousedown")
    /\ ~drawing
    /\ nearPoints(ev'.pos[1]) = {}
    /\ nearCurves(ev'.pos[1]) # {}

C13_StartsNewCurve ==
    [][ /\ ( /\ EventStep("mousedown")
             /\ ~drawing
             /\ nearPoints(ev'.pos[1]) = {}
             /\ nearCurves(ev'.pos[1]) = {} )
            => /\ currentCurve' = <<ev'.pos[1]>>
               /\ drawing'
               /\ curves' = curves
        /\ (CommitKeyHandled /\ curves = <<>>)
            => /\ curves' = <<currentCurve>>
               /\ ~drawing'
      ]_vars

\* C14 (Pointer-up): after a pointer-up is handled the drag index is absent,
\* and the selection index, the committed curves, the Active Curve and the
\* Mode are exactly as before it.
C14_PointerUp ==
    [][ HandledStep("mouseup")
        => /\ dragging' = Null
           /\ UNCHANGED <<selectedCurveIndex, curves, currentCurve, drawing>>
      ]_vars

\* A pointer-up has just ended the drag of a point of the selected curve.
C14_Witness ==
    /\ ev.type = "mouseup" /\ ev.handled
    /\ dirty
    /\ handlers.dragging # Null
    /\ dragging = Null
    /\ ~drawing
    /\ selectedCurveIndex # Null
    /\ selectedCurveIndex = handlers.selectedCurveIndex
    /\ curves = handlers.curves

\* C15 (Preview pointer position): every handled pointer-move records its
\* position as the last-known pointer position, and a pointer-up handled
\* while Mode = Drawing does not clear it; so while Drawing with a non-empty
\* Active Curve the preview position, once known, stays known until the
\* commit.
C15_PreviewPositionKept ==
    [][ /\ HandledStep("mousemove") => mousePos' = ev'.pos
        /\ (HandledStep("mouseup") /\ drawing) => mousePos' = mousePos
        /\ (drawing /\ currentCurve # <<>> /\ mousePos # <<>> /\ ~CommitKeyHandled)
            => mousePos' # <<>>
      ]_vars

CommitKeyAfterPointerDown ==
    /\ ev.type = "mousedown" /\ ev.handled
    /\ drawing
    /\ currentCurve # <<>>
    /\ currentCurve[Len(currentCurve)] = ev.pos[1]
    /\ ev'.type = "keydown" /\ ev'.key = "Enter"

\* The last event was a successful commit, and the next event (not the
\* re-render) is the commit key again.
CommitKeyAfterCommit ==
    /\ ev.type = "keydown" /\ ev.key = "Enter" /\ ev.handled
    /\ calls # <<>>
    /\ ev'.type = "keydown" /\ ev'.key = "Enter"
    /\ ~(dirty /\ ~dirty')

\* C18 (No stale snapshot): every handler invocation observes the state left
\* by all events processed before it, also when the event arrives before the
\* component re-rendered and re-subscribed its handlers: the commit key
\* pressed directly after an accepted pointer-down commits the curve that
\* ends with that pointer-down's position, and the commit key pressed
\* directly after a successful commit is ignored.
C18_NoStaleSnapshot ==
    [][ /\ (CommitKeyAfterPointerDown /\ Len(currentCurve) >= 2)
            => /\ curves' = Append(curves, currentCurve)
               /\ ~drawing'
        /\ CommitKeyAfterCommit
            => UNCHANGED <<curves, currentCurve, drawing, selectedCurveIndex,
                           toolCalls, finishCalls>>
      ]_vars

\* C19 (Commit redraw equals the Renderer): the redraw inside the commit
\* handler paints the post-commit state: it strokes every committed curve
\* with at least 2 points, the new one included, exactly once and paints no
\* selection markers, the same stroke commands the Renderer issues for the
\* post-commit state.
C19_CommitRedrawIsRenderer ==
    [][ CommitKeyHandled
        => canvas' = draw(curves', currentCurve', selectedCurveIndex', mousePos',
                          drawing')
      ]_vars

\* C20 (Listener scoping): the handlers are subscribed exactly while Mode =
\* Drawing and unsubscribed whenever it is not; so where Mode is not Drawing
\* no pointer or key event changes the committed curves, the Active Curve,
\* the selection, the drag index or the Mode, a later change of the external
\* active signal does not put the component back into Drawing, and after the
\* first successful commit the component's state never changes again.
C20_ListenerScoping ==
    /\ [](~dirty => handlers.subscribed = drawing)
    /\ [][ /\ ~drawing
               => UNCHANGED <<curves, currentCurve, selectedCurveIndex, dragging,
                              drawing>>
           /\ active' # active => drawing' = drawing
           /\ curves # <<>>
               => UNCHANGED <<curves, currentCurve, selectedCurveIndex, dragging,
                              drawing, mousePos>>
         ]_vars

\* After a commit the external active signal was switched on again: Mode is
\* still Idle and no listener is subscribed.
C20_Witness ==
    /\ curves # <<>>
    /\ ev.type = "props"
    /\ active
    /\ ~drawing
    /\ ~dirty
    /\ ~handlers.subscribed
====
